---- MODULE Spec2Model ----
(***************************************************************************)
(* Model of scripts/git_tools.py: the post-generation bootstrap helper.    *)
(* One run of main() is a sequence of external invocations (subprocess     *)
(* probes and commands) and one file write; the environment (installed     *)
(* tools, git, the working tree, the configuration file) persists across   *)
(* runs.                                                                   *)
(***************************************************************************)
EXTENDS Integers, Sequences, FiniteSets, TLC

(* ------------------------------ bounds -------------------------------- *)
\* child processes return an exit code in 0..MaxRc
MaxRc == 2
\* number of consecutive invocations of the script against one directory
MaxRuns == 2

RetCodes == 0..MaxRc

(* ----------------------------- constants ------------------------------ *)
Absent == "<absent>"
None == 0 - 1
SysExecutable == "sys.executable"
CfgPath == ".pre-commit-config.yaml"
GitMissingMsg == "ERROR: git is not installed or not in PATH."
DoneMsg == ">>> git_tools done"
Tools == {"pre-commit", "nbstripout", "nbautoexport"}

\* str.join
RECURSIVE Join(_, _)
Join(parts, sep) ==
    IF Len(parts) = 0 THEN ""
    ELSE IF Len(parts) = 1 THEN parts[1]
    ELSE parts[1] \o sep \o Join(Tail(parts), sep)

\* mutant: the list literal without its final empty element (no newline at
\* the end of the file)
PayloadLines_NoTrailingEmpty ==
    << "repos:",
       "  - repo: https://github.com/kynan/nbstripout",
       "    rev: 0.6.1",
       "    hooks:",
       "      - id: nbstripout" >>

\* the list literal of write_precommit_config
PayloadLines ==
    << "repos:",
       "  - repo: https://github.com/kynan/nbstripout",
       "    rev: 0.6.1",
       "    hooks:",
       "      - id: nbstripout",
       "" >>

Payload == Join(PayloadLines, "\n")

\* mutant: the import-checked package is handled first
needed_Reordered ==
    << [pkg |-> "nbstripout",   probe |-> <<"python", "-c", "import nbstripout">>],
       [pkg |-> "pre-commit",   probe |-> <<"pre-commit", "--version">>],
       [pkg |-> "nbautoexport", probe |-> <<"nbautoexport", "--help">>] >>

\* the list `needed` of ensure_pip_packages
needed ==
    << [pkg |-> "pre-commit",   probe |-> <<"pre-commit", "--version">>],
       [pkg |-> "nbstripout",   probe |-> <<"python", "-c", "import nbstripout">>],
       [pkg |-> "nbautoexport", probe |-> <<"nbautoexport", "--help">>] >>

\* the probe actually executed for an entry of `needed`
ProbeCmd(probe) ==
    IF probe[1] # "python" THEN probe ELSE <<SysExecutable, "-c", probe[3]>>

PipInstallCmd(pkg) == <<SysExecutable, "-m", "pip", "install", "-U", pkg>>
GitVersionCmd == <<"git", "--version">>
GitRevParseCmd == <<"git", "rev-parse", "--is-inside-work-tree">>
GitInitCmd == <<"git", "init">>
HookProbeCmd == <<"pre-commit", "--version">>
HookInstallCmd == <<"pre-commit", "install">>
NbProbeCmd == <<"nbautoexport", "--help">>
NbConfigureCmd == <<"nbautoexport", "configure", "-f", "script", "notebooks">>

\* mutant: main registers the hooks before it writes the configuration file
MainOrder_HooksBeforeConfig ==
    << "ensure_pip_packages", "ensure_git_repo",
       "install_hooks_and_configure", "write_precommit_config" >>

\* the order of the calls in main
MainOrder ==
    << "ensure_pip_packages", "ensure_git_repo",
       "write_precommit_config", "install_hooks_and_configure" >>

\* first program point of each function
Entry(fn) ==
    CASE fn = "ensure_pip_packages" -> "pip_upgrade"
      [] fn = "ensure_git_repo" -> "git_version"
      [] fn = "write_precommit_config" -> "write_cfg"
      [] fn = "install_hooks_and_configure" -> "hook_probe"

\* program point reached when function fn of main returns
Return(fn) ==
    LET k == CHOOSE j \in 1..Len(MainOrder) : MainOrder[j] = fn
    IN  IF k < Len(MainOrder) THEN Entry(MainOrder[k + 1]) ELSE "done_msg"

\* exit status of the process for SystemExit(code), an 8-bit value
ExitStatus(code) == code % 256

(* ------------------------------- state -------------------------------- *)
VARIABLES
    installed,  \* environment: tool -> its availability probe succeeds
    gitAvail,   \* environment: `git --version` succeeds
    workTree,   \* environment: `git rev-parse --is-inside-work-tree` succeeds
    cfg,        \* content of .pre-commit-config.yaml, or Absent
    pc,         \* program point of the current run
    i,          \* index of the loop over `needed`
    calls,      \* this run's invocations, in order
    out,        \* this run's lines on standard output
    err,        \* this run's lines on standard error
    exitCode,   \* exit status of the run, None while it runs
    start,      \* the environment as it was when this run started
    runs        \* number of runs started so far

vars == <<installed, gitAvail, workTree, cfg, pc, i, calls, out, err,
          exitCode, start, runs>>

env == <<installed, gitAvail, workTree, cfg>>

CfgContents == {Absent, Payload, "", "repos: []\n"}

Snapshot(ins, ga, wt, c) ==
    [installed |-> ins, gitAvail |-> ga, workTree |-> wt, cfg |-> c]

\* result of has_cmd(cmd) in the current environment
HasCmd(cmd) ==
    CASE cmd = GitVersionCmd -> gitAvail
      [] cmd = GitRevParseCmd -> workTree
      [] cmd[1] = "pre-commit" -> installed["pre-commit"]
      [] cmd[1] = "nbautoexport" -> installed["nbautoexport"]
      [] cmd[1] = SysExecutable -> installed["nbstripout"]

Call(fn, via, cmd, rc) == [fn |-> fn, via |-> via, cmd |-> cmd, rc |-> rc]

Echo(cmd) == ">>> " \o Join(cmd, " ")

\* The detection probe is itself a git command, so a directory counts as a
\* working tree only where git can be invoked.
Init ==
    /\ installed \in [Tools -> BOOLEAN]
    /\ gitAvail \in BOOLEAN
    /\ workTree \in BOOLEAN
    /\ workTree => gitAvail
    /\ cfg \in CfgContents
    /\ pc = Entry(MainOrder[1])
    /\ i = 1
    /\ calls = <<>>
    /\ out = <<>>
    /\ err = <<>>
    /\ exitCode = None
    /\ start = Snapshot(installed, gitAvail, workTree, cfg)
    /\ runs = 1

(* ------------------------------ helpers ------------------------------- *)
\* mutant: a failed mandatory command makes the process exit with 1
run_ExitOne(fn, cmd, check, rc, next) ==
    /\ out' = Append(out, ">>> " \o Join(cmd, " "))
    /\ calls' = Append(calls, [fn |-> fn, via |-> "run", cmd |-> cmd, rc |-> rc])
    /\ IF check /\ rc # 0
       THEN /\ pc' = "exited"
            /\ exitCode' = 1
       ELSE /\ pc' = next
            /\ exitCode' = exitCode
    /\ err' = err

\* run(cmd, check) whose child returned rc; `next` is where the caller goes on
run(fn, cmd, check, rc, next) ==
    /\ out' = Append(out, Echo(cmd))
    /\ calls' = Append(calls, Call(fn, "run", cmd, rc))
    /\ IF check /\ rc # 0
       THEN /\ pc' = "exited"
            /\ exitCode' = ExitStatus(rc)
       ELSE /\ pc' = next
            /\ exitCode' = exitCode
    /\ err' = err

\* has_cmd(cmd): records the probe; the caller branches on HasCmd(cmd)
has_cmd(fn, cmd) ==
    calls' = Append(calls, Call(fn, "has_cmd", cmd, IF HasCmd(cmd) THEN 0 ELSE 1))

\* program point after the body of the loop over `needed`
AfterLoopBody ==
    IF i < Len(needed) THEN "probe" ELSE Return("ensure_pip_packages")

(* ------------------------------ actions ------------------------------- *)
\* ensure_pip_packages, line 31: best-effort upgrade of pip
PipSelfUpgrade ==
    /\ pc = "pip_upgrade"
    /\ \E rc \in RetCodes :
          run("ensure_pip_packages", PipInstallCmd("pip"), FALSE, rc, "probe")
    /\ i' = 1
    /\ UNCHANGED <<env, start, runs>>

\* mutant: the install is issued whatever the probe returned
ProbeNeeded_AlwaysInstall ==
    /\ pc = "probe"
    /\ has_cmd("ensure_pip_packages", ProbeCmd(needed[i].probe))
    /\ out' = Append(out, ">>> Installing " \o needed[i].pkg)
    /\ pc' = "pip_install"
    /\ i' = i
    /\ UNCHANGED <<env, err, exitCode, start, runs>>

\* ensure_pip_packages, lines 39-44: probe of needed[i] and the branch on it
ProbeNeeded ==
    /\ pc = "probe"
    /\ LET pkg == needed[i].pkg
           cmd == ProbeCmd(needed[i].probe)
       IN  /\ has_cmd("ensure_pip_packages", cmd)
           /\ IF HasCmd(cmd)
              THEN /\ out' = Append(out, ">>> " \o pkg \o " already available")
                   /\ pc' = AfterLoopBody
                   /\ i' = IF i < Len(needed) THEN i + 1 ELSE i
              ELSE /\ out' = Append(out, ">>> Installing " \o pkg)
                   /\ pc' = "pip_install"
                   /\ i' = i
    /\ UNCHANGED <<env, err, exitCode, start, runs>>

\* ensure_pip_packages, line 45: pip_install(pkg), mandatory.  A pip that
\* exits 0 need not make the tool's probe succeed (the script may land outside
\* PATH): lines 85-86 and 91-92 provide for a tool "still not available".
PipInstall ==
    /\ pc = "pip_install"
    /\ \E rc \in RetCodes, nowAvail \in BOOLEAN :
          /\ run("ensure_pip_packages", PipInstallCmd(needed[i].pkg), TRUE, rc,
                 AfterLoopBody)
          /\ installed' = IF rc = 0
                          THEN [installed EXCEPT ![needed[i].pkg] = nowAvail]
                          ELSE installed
          /\ i' = IF rc = 0 /\ i < Len(needed) THEN i + 1 ELSE i
    /\ UNCHANGED <<gitAvail, workTree, cfg, start, runs>>

\* mutant: a missing git is reported but the run goes on
GitVersion_NoAbort ==
    /\ pc = "git_version"
    /\ has_cmd("ensure_git_repo", GitVersionCmd)
    /\ err' = IF ~HasCmd(GitVersionCmd) THEN Append(err, GitMissingMsg) ELSE err
    /\ pc' = "rev_parse"
    /\ UNCHANGED <<env, i, out, exitCode, start, runs>>

\* ensure_git_repo, lines 49-50: git must be invocable, else SystemExit(message)
GitVersion ==
    /\ pc = "git_version"
    /\ has_cmd("ensure_git_repo", GitVersionCmd)
    /\ IF ~HasCmd(GitVersionCmd)
       THEN /\ err' = Append(err, GitMissingMsg)
            /\ exitCode' = 1
            /\ pc' = "exited"
       ELSE /\ pc' = "rev_parse"
            /\ UNCHANGED <<err, exitCode>>
    /\ UNCHANGED <<env, i, out, start, runs>>

\* mutant: git init is run whatever the detection probe returned
GitRevParse_AlwaysInit ==
    /\ pc = "rev_parse"
    /\ has_cmd("ensure_git_repo", GitRevParseCmd)
    /\ out' = out
    /\ pc' = "git_init"
    /\ UNCHANGED <<env, i, err, exitCode, start, runs>>

\* ensure_git_repo, lines 53-54: detection of an existing working tree
GitRevParse ==
    /\ pc = "rev_parse"
    /\ has_cmd("ensure_git_repo", GitRevParseCmd)
    /\ IF HasCmd(GitRevParseCmd)
       THEN /\ out' = Append(out, ">>> git already initialized")
            /\ pc' = Return("ensure_git_repo")
       ELSE /\ out' = out
            /\ pc' = "git_init"
    /\ UNCHANGED <<env, i, err, exitCode, start, runs>>

\* ensure_git_repo, line 56: git init, mandatory
GitInit ==
    /\ pc = "git_init"
    /\ \E rc \in RetCodes :
          /\ run("ensure_git_repo", GitInitCmd, TRUE, rc, Return("ensure_git_repo"))
          /\ workTree' = IF rc = 0 THEN TRUE ELSE workTree
    /\ UNCHANGED <<installed, gitAvail, cfg, i, start, runs>>

\* mutant: the file is written without the existence check
write_precommit_config_Overwrite ==
    /\ pc = "write_cfg"
    /\ calls' = Append(calls,
           Call("write_precommit_config", "write_text", <<CfgPath>>, 0))
    /\ cfg' = Payload
    /\ out' = Append(out, ">>> wrote " \o CfgPath)
    /\ pc' = Return("write_precommit_config")
    /\ UNCHANGED <<installed, gitAvail, workTree, i, err, exitCode, start, runs>>

\* write_precommit_config, lines 59-78
write_precommit_config ==
    /\ pc = "write_cfg"
    /\ IF cfg # Absent
       THEN /\ calls' = Append(calls,
                   Call("write_precommit_config", "exists", <<CfgPath>>, 0))
            /\ out' = Append(out, ">>> " \o CfgPath \o " already exists")
            /\ cfg' = cfg
       ELSE /\ calls' = calls
                   \o << Call("write_precommit_config", "exists", <<CfgPath>>, 1),
                         Call("write_precommit_config", "write_text", <<CfgPath>>, 0) >>
            /\ cfg' = Payload
            /\ out' = Append(out, ">>> wrote " \o CfgPath)
    /\ pc' = Return("write_precommit_config")
    /\ UNCHANGED <<installed, gitAvail, workTree, i, err, exitCode, start, runs>>

\* install_hooks_and_configure, lines 83-86: second probe of pre-commit
HookProbe ==
    /\ pc = "hook_probe"
    /\ has_cmd("install_hooks_and_configure", HookProbeCmd)
    /\ IF HasCmd(HookProbeCmd)
       THEN /\ pc' = "hook_install"
            /\ out' = out
       ELSE /\ pc' = "nb_probe"
            /\ out' = Append(out,
                   ">>> pre-commit still not available, skipping install")
    /\ UNCHANGED <<env, i, err, exitCode, start, runs>>

\* mutant: pre-commit install is run as a mandatory command
HookInstall_Checked ==
    /\ pc = "hook_install"
    /\ \E rc \in RetCodes :
          run("install_hooks_and_configure", HookInstallCmd, TRUE, rc, "nb_probe")
    /\ UNCHANGED <<env, i, start, runs>>

\* install_hooks_and_configure, line 84: pre-commit install, not mandatory
HookInstall ==
    /\ pc = "hook_install"
    /\ \E rc \in RetCodes :
          run("install_hooks_and_configure", HookInstallCmd, FALSE, rc, "nb_probe")
    /\ UNCHANGED <<env, i, start, runs>>

\* install_hooks_and_configure, lines 89-92: second probe of nbautoexport
NbProbe ==
    /\ pc = "nb_probe"
    /\ has_cmd("install_hooks_and_configure", NbProbeCmd)
    /\ IF HasCmd(NbProbeCmd)
       THEN /\ pc' = "nb_configure"
            /\ out' = out
       ELSE /\ pc' = Return("install_hooks_and_configure")
            /\ out' = Append(out,
                   ">>> nbautoexport still not available, skipping configure")
    /\ UNCHANGED <<env, i, err, exitCode, start, runs>>

\* install_hooks_and_configure, line 90: nbautoexport configure, not mandatory
NbConfigure ==
    /\ pc = "nb_configure"
    /\ \E rc \in RetCodes :
          run("install_hooks_and_configure", NbConfigureCmd, FALSE, rc,
              Return("install_hooks_and_configure"))
    /\ UNCHANGED <<env, i, start, runs>>

\* main, line 100, and the normal end of the process
PrintDone ==
    /\ pc = "done_msg"
    /\ out' = Append(out, DoneMsg)
    /\ exitCode' = 0
    /\ pc' = "exited"
    /\ UNCHANGED <<env, i, calls, err, start, runs>>

\* the script is invoked again in the same directory (line 103)
Restart ==
    /\ pc = "exited"
    /\ runs < MaxRuns
    /\ runs' = runs + 1
    /\ pc' = Entry(MainOrder[1])
    /\ i' = 1
    /\ calls' = <<>>
    /\ out' = <<>>
    /\ err' = <<>>
    /\ exitCode' = None
    /\ start' = Snapshot(installed, gitAvail, workTree, cfg)
    /\ UNCHANGED env

Next ==
    \/ PipSelfUpgrade
    \/ ProbeNeeded
    \/ PipInstall
    \/ GitVersion
    \/ GitRevParse
    \/ GitInit
    \/ write_precommit_config
    \/ HookProbe
    \/ HookInstall
    \/ NbProbe
    \/ NbConfigure
    \/ PrintDone
    \/ Restart

Spec == Init /\ [][Next]_vars

\* every step that is enabled is eventually taken: each child is waited for
FairSpec == Spec /\ WF_vars(Next)

(* ------------------------- reading a run ------------------------------ *)
Exited == pc = "exited"

\* positions of `calls` where cmd was executed through run / probed by has_cmd
RunAt(cmd) == {k \in DOMAIN calls : calls[k].via = "run" /\ calls[k].cmd = cmd}
ProbeAt(fn, cmd) ==
    {k \in DOMAIN calls :
        calls[k].fn = fn /\ calls[k].via = "has_cmd" /\ calls[k].cmd = cmd}

Invoked(cmd) == RunAt(cmd) # {}
Printed(line) == \E k \in DOMAIN out : out[k] = line
WroteFile == \E k \in DOMAIN calls : calls[k].via = "write_text"

\* the commands whose failure must abort the run
MandatoryCmds == {PipInstallCmd(t) : t \in Tools} \cup {GitInitCmd}
FailedMandatory ==
    {k \in DOMAIN calls :
        calls[k].via = "run" /\ calls[k].cmd \in MandatoryCmds /\ calls[k].rc # 0}

GitProbeFailed == \E k \in ProbeAt("ensure_git_repo", GitVersionCmd) : calls[k].rc # 0
Detected == \E k \in ProbeAt("ensure_git_repo", GitRevParseCmd) : calls[k].rc = 0
InitSucceeded == \E k \in RunAt(GitInitCmd) : calls[k].rc = 0

\* the commands executed through run, in order
RunCmds ==
    LET r == SelectSeq(calls, LAMBDA c : c.via = "run")
    IN  [k \in 1..Len(r) |-> r[k].cmd]

(* ------------------------------- C1 ----------------------------------- *)
\* C1: an existing .pre-commit-config.yaml, whatever its content, is never
\* modified: no step of any run changes the content of a file that exists, and
\* throughout a run started with the file present the content is the one the
\* run started with.
C1_WriteOnce ==
    /\ [][cfg # Absent => cfg' = cfg]_vars
    /\ [](start.cfg # Absent => cfg = start.cfg)

\* a second run has finished over a file whose content is not the payload
C1_Witness ==
    /\ runs = 2
    /\ Exited
    /\ exitCode = 0
    /\ start.cfg = "repos: []\n"
    /\ cfg = "repos: []\n"
    /\ Printed(">>> " \o CfgPath \o " already exists")

(* ------------------------------- C2 ----------------------------------- *)
\* C2: a run that prints the final message exits 0; as soon as a mandatory
\* command (pip install of one of the three tools, git init) has failed the
\* process has exited with exactly that command's exit code, which is not 0,
\* and that command is the last invocation of the run; a run exits non-zero
\* only after such a failure or after the git availability probe failed.
C2_ExitCodePropagation ==
    /\ Exited /\ Printed(DoneMsg) => exitCode = 0
    /\ \A k \in FailedMandatory :
          /\ Exited
          /\ exitCode = calls[k].rc
          /\ exitCode # 0
          /\ k = Len(calls)
    /\ Exited /\ exitCode # 0 => FailedMandatory # {} \/ GitProbeFailed
    /\ Exited /\ FailedMandatory = {} /\ ~GitProbeFailed => exitCode = 0

\* git init failed with exit code 2 and the process exited with 2
C2_Witness ==
    /\ Exited
    /\ exitCode = 2
    /\ \E k \in RunAt(GitInitCmd) : calls[k].rc = 2

(* ------------------------------- C3 ----------------------------------- *)
\* C3: whatever the exit code of pip's self-upgrade, of pre-commit install or
\* of nbautoexport configure, the step taken from that program point goes on
\* to the next step without exiting; and once pre-commit install or
\* nbautoexport configure has exited non-zero the run reaches the final
\* message and ends with exit code 0.
NonMandatoryFailed ==
    \E k \in RunAt(HookInstallCmd) \cup RunAt(NbConfigureCmd) : calls[k].rc # 0

CompletedNormally ==
    /\ Exited
    /\ exitCode = 0
    /\ out # <<>>
    /\ out[Len(out)] = DoneMsg

C3_NonMandatoryContinues ==
    /\ [][/\ pc = "pip_upgrade" => pc' = "probe" /\ exitCode' = None
          /\ pc = "hook_install" => pc' = "nb_probe" /\ exitCode' = None
          /\ pc = "nb_configure" => pc' = "done_msg" /\ exitCode' = None]_vars
    /\ (NonMandatoryFailed ~> CompletedNormally)

\* both optional commands failed and the run completed
C3_Witness ==
    /\ CompletedNormally
    /\ \E k \in RunAt(HookInstallCmd) : calls[k].rc # 0
    /\ \E k \in RunAt(NbConfigureCmd) : calls[k].rc # 0
    /\ calls[1].rc # 0

(* ------------------------------- C4 ----------------------------------- *)
\* C4: when the probe `git --version` fails the process has exited with the
\* fatal message on standard error and a non-zero exit code, the probe is the
\* last invocation of the run, the configuration file is as the run found it
\* and the final message is not printed.
C4_GitMissingFatal ==
    \A k \in ProbeAt("ensure_git_repo", GitVersionCmd) :
       calls[k].rc # 0 =>
          /\ Exited
          /\ exitCode # 0
          /\ err = <<GitMissingMsg>>
          /\ k = Len(calls)
          /\ ~Invoked(GitInitCmd) /\ ~Invoked(HookInstallCmd) /\ ~Invoked(NbConfigureCmd)
          /\ ProbeAt("ensure_git_repo", GitRevParseCmd) = {}
          /\ ~WroteFile
          /\ cfg = start.cfg
          /\ ~Printed(DoneMsg)

\* a run in a directory without a configuration file died on the missing git
C4_Witness ==
    /\ Exited
    /\ ~start.gitAvail
    /\ start.cfg = Absent
    /\ err = <<GitMissingMsg>>
    /\ exitCode = 1

(* ------------------------------- C5 ----------------------------------- *)
\* the availability probe ensure_pip_packages issues for tool t
ToolProbe(t) ==
    LET j == CHOOSE n \in DOMAIN needed : needed[n].pkg = t
    IN  ProbeCmd(needed[j].probe)

\* C5: for each of the three tools, after its probe in ensure_pip_packages
\* succeeded no pip install of that tool is issued in the run; after the probe
\* failed the very next invocation is the pip install of that tool (or the
\* run is about to issue it); and no pip install of a tool is issued except
\* right after a failed probe of that tool.
C5_SkipWhenPresent ==
    \A t \in Tools :
       /\ \A k \in ProbeAt("ensure_pip_packages", ToolProbe(t)) :
             IF calls[k].rc = 0
             THEN ~Invoked(PipInstallCmd(t))
             ELSE IF k < Len(calls)
                  THEN calls[k + 1].via = "run" /\ calls[k + 1].cmd = PipInstallCmd(t)
                  ELSE pc = "pip_install" /\ needed[i].pkg = t
       /\ \A k \in RunAt(PipInstallCmd(t)) :
             /\ k > 1
             /\ k - 1 \in ProbeAt("ensure_pip_packages", ToolProbe(t))
             /\ calls[k - 1].rc # 0
       /\ Cardinality(RunAt(PipInstallCmd(t))) <= 1

\* one tool was found and skipped, another was missing and installed
C5_Witness ==
    /\ Exited
    /\ exitCode = 0
    /\ start.installed["pre-commit"]
    /\ ~Invoked(PipInstallCmd("pre-commit"))
    /\ ~start.installed["nbautoexport"]
    /\ Invoked(PipInstallCmd("nbautoexport"))

(* ------------------------------- C6 ----------------------------------- *)
\* C6: when the detection probe reports a working tree git init is not
\* invoked in the run; git init is invoked only right after a successful
\* `git --version` probe followed by a failed detection probe, and after a
\* failed detection probe the next invocation is git init.
C6_DetectInitExclusive ==
    /\ Detected => ~Invoked(GitInitCmd)
    /\ \A k \in RunAt(GitInitCmd) :
          /\ k > 2
          /\ k - 1 \in ProbeAt("ensure_git_repo", GitRevParseCmd)
          /\ calls[k - 1].rc # 0
          /\ k - 2 \in ProbeAt("ensure_git_repo", GitVersionCmd)
          /\ calls[k - 2].rc = 0
    /\ \A k \in ProbeAt("ensure_git_repo", GitRevParseCmd) :
          calls[k].rc # 0 =>
             IF k < Len(calls) THEN k + 1 \in RunAt(GitInitCmd) ELSE pc = "git_init"

\* a run over an existing working tree has finished without git init
C6_Witness ==
    /\ Exited
    /\ exitCode = 0
    /\ start.workTree
    /\ Detected
    /\ ~Invoked(GitInitCmd)

(* ------------------------------- C7 ----------------------------------- *)
AllConfiguredAtStart ==
    /\ \A t \in Tools : start.installed[t]
    /\ start.gitAvail
    /\ start.workTree
    /\ start.cfg # Absent

AlreadyLines ==
    {">>> " \o t \o " already available" : t \in Tools}
       \cup {">>> " \o CfgPath \o " already exists"}

\* C7 as stated: a finished run over a fully configured directory has
\* executed no state-changing command at all (no installer invocation, no git
\* init, no write), has printed only "already available" / "already exists"
\* lines and has exited 0.
C7_Original ==
    AllConfiguredAtStart /\ Exited =>
       /\ RunCmds = <<>>
       /\ ~WroteFile
       /\ \A k \in DOMAIN out : out[k] \in AlreadyLines
       /\ exitCode = 0

\* C7 amended: in a run over a fully configured directory no pip install of
\* any of the three tools, no git init and no file write occur and the
\* environment stays as it was; the run still executes, in this order, pip's
\* self-upgrade, pre-commit install and nbautoexport configure, and it ends
\* with exit code 0 having printed the echoes of those commands, the three
\* "already available" lines, "git already initialized", "already exists" and
\* the final message.
C7_Amended ==
    AllConfiguredAtStart =>
       /\ \A t \in Tools : ~Invoked(PipInstallCmd(t))
       /\ ~Invoked(GitInitCmd)
       /\ ~WroteFile
       /\ env = <<start.installed, start.gitAvail, start.workTree, start.cfg>>
       /\ Exited =>
             /\ exitCode = 0
             /\ RunCmds = <<PipInstallCmd("pip"), HookInstallCmd, NbConfigureCmd>>
             /\ out = << Echo(PipInstallCmd("pip")),
                         ">>> pre-commit already available",
                         ">>> nbstripout already available",
                         ">>> nbautoexport already available",
                         ">>> git already initialized",
                         ">>> " \o CfgPath \o " already exists",
                         Echo(HookInstallCmd),
                         Echo(NbConfigureCmd),
                         DoneMsg >>

\* a run over a fully configured directory has finished
C7_Witness ==
    /\ AllConfiguredAtStart
    /\ Exited
    /\ Printed(DoneMsg)
    /\ Invoked(HookInstallCmd)

(* ------------------------------- C8 ----------------------------------- *)
FreshAtStart ==
    /\ \A t \in Tools : ~start.installed[t]
    /\ start.gitAvail
    /\ ~start.workTree
    /\ start.cfg = Absent

\* the content the specification gives for the file, as a text file: each of
\* its five lines ended by a newline
SpecLiteral ==
    "repos:\n" \o
    "  - repo: https://github.com/kynan/nbstripout\n" \o
    "    rev: 0.6.1\n" \o
    "    hooks:\n" \o
    "      - id: nbstripout\n"

FreshCommon ==
    /\ \A t \in Tools : Invoked(PipInstallCmd(t))
    /\ Invoked(GitInitCmd)
    /\ WroteFile
    /\ cfg = SpecLiteral
    /\ out[Len(out)] = DoneMsg
    /\ exitCode = 0

\* C8 as stated: a finished run over a fresh directory in which no mandatory
\* command failed has installed the three tools, run git init, written the
\* literal content, invoked pre-commit install and nbautoexport configure,
\* printed the final message and exited 0.
C8_Original ==
    FreshAtStart /\ Exited /\ FailedMandatory = {} =>
       /\ FreshCommon
       /\ Invoked(HookInstallCmd)
       /\ Invoked(NbConfigureCmd)

\* C8 amended: as stated, except that pre-commit install is invoked exactly
\* when the second probe of pre-commit (after its installation) succeeds and
\* nbautoexport configure exactly when the second probe of nbautoexport
\* succeeds; both probes are always issued, and a failed one prints the
\* "still not available, skipping" line instead.
C8_Amended ==
    FreshAtStart /\ Exited /\ FailedMandatory = {} =>
       /\ FreshCommon
       /\ \E k \in ProbeAt("install_hooks_and_configure", HookProbeCmd) :
             /\ Invoked(HookInstallCmd) <=> calls[k].rc = 0
             /\ Printed(">>> pre-commit still not available, skipping install")
                   <=> calls[k].rc # 0
       /\ \E k \in ProbeAt("install_hooks_and_configure", NbProbeCmd) :
             /\ Invoked(NbConfigureCmd) <=> calls[k].rc = 0
             /\ Printed(">>> nbautoexport still not available, skipping configure")
                   <=> calls[k].rc # 0

\* a run over a fresh directory has finished with both optional commands run
C8_Witness ==
    /\ FreshAtStart
    /\ Exited
    /\ FailedMandatory = {}
    /\ cfg = SpecLiteral
    /\ Invoked(HookInstallCmd)
    /\ Invoked(NbConfigureCmd)
    /\ Len(calls) = 16

(* ------------------------------- C9 ----------------------------------- *)
\* the order in which the claim lists the tools
ClaimToolOrder == <<"pre-commit", "nbstripout", "nbautoexport">>

ToolPos(cmd, cmdOf(_)) ==
    CHOOSE j \in DOMAIN ClaimToolOrder : cmd = cmdOf(ClaimToolOrder[j])

\* position of an invocation in the order the claim gives; 0 if it has none
Rank(c) ==
    CASE c.fn = "ensure_pip_packages" /\ c.via = "run" /\ c.cmd = PipInstallCmd("pip") -> 1
      [] c.fn = "ensure_pip_packages" /\ c.via = "has_cmd"
            /\ c.cmd \in {ToolProbe(t) : t \in Tools} -> 2 * ToolPos(c.cmd, ToolProbe)
      [] c.fn = "ensure_pip_packages" /\ c.via = "run"
            /\ c.cmd \in {PipInstallCmd(t) : t \in Tools} ->
               2 * ToolPos(c.cmd, PipInstallCmd) + 1
      [] c.fn = "ensure_git_repo" /\ c.via = "has_cmd" /\ c.cmd = GitVersionCmd -> 8
      [] c.fn = "ensure_git_repo" /\ c.via = "has_cmd" /\ c.cmd = GitRevParseCmd -> 9
      [] c.fn = "ensure_git_repo" /\ c.via = "run" /\ c.cmd = GitInitCmd -> 10
      [] c.fn = "write_precommit_config" /\ c.via = "exists" -> 11
      [] c.fn = "write_precommit_config" /\ c.via = "write_text" -> 12
      [] c.fn = "install_hooks_and_configure" /\ c.via = "has_cmd"
            /\ c.cmd = HookProbeCmd -> 13
      [] c.fn = "install_hooks_and_configure" /\ c.via = "run"
            /\ c.cmd = HookInstallCmd -> 14
      [] c.fn = "install_hooks_and_configure" /\ c.via = "has_cmd"
            /\ c.cmd = NbProbeCmd -> 15
      [] c.fn = "install_hooks_and_configure" /\ c.via = "run"
            /\ c.cmd = NbConfigureCmd -> 16
      [] OTHER -> 0

RanksBefore(k) == {Rank(calls[j]) : j \in 1..(k - 1)}

\* the invocations every run makes in a step before it can leave that step
StepsDoneBefore(r) ==
    (IF r >= 8 THEN {1, 2, 4, 6} ELSE {})
       \cup (IF r >= 11 THEN {8, 9} ELSE {})
       \cup (IF r >= 13 THEN {11} ELSE {})

\* C9: the invocations of a run occur in the fixed order pip self-upgrade,
\* probe/install of pre-commit, of nbstripout, of nbautoexport, git --version,
\* detection, git init, existence check, write, probe of pre-commit,
\* pre-commit install, probe of nbautoexport, nbautoexport configure: the run
\* starts with the self-upgrade, positions strictly increase along the run,
\* an invocation of a later step occurs only after the earlier steps made
\* all their unconditional invocations, and nothing follows a failed install.
C9_FixedOrder ==
    /\ calls # <<>> => Rank(calls[1]) = 1
    /\ \A k \in DOMAIN calls :
          /\ Rank(calls[k]) # 0
          /\ \A j \in 1..(k - 1) : Rank(calls[j]) < Rank(calls[k])
          /\ StepsDoneBefore(Rank(calls[k])) \subseteq RanksBefore(k)
    /\ \A t \in Tools : \A k \in RunAt(PipInstallCmd(t)) :
          calls[k].rc # 0 => k = Len(calls)

\* a run that made every one of the sixteen invocations has finished
C9_Witness ==
    /\ Exited
    /\ Len(calls) = 16
    /\ Rank(calls[16]) = 16
    /\ calls[1].rc # 0

(* ------------------------------- C10 ---------------------------------- *)
\* C10: once the final message is printed the configuration file exists and
\* the directory was detected as a working tree or git init exited 0 in this
\* run; and whenever pre-commit install is about to be invoked or has been
\* invoked, git was found available, the directory was detected or
\* successfully initialised, and the configuration file exists.
C10_DonePostcondition ==
    /\ Printed(DoneMsg) =>
          /\ cfg # Absent
          /\ Detected \/ InitSucceeded
    /\ pc = "hook_install" \/ Invoked(HookInstallCmd) =>
          /\ gitAvail
          /\ \E k \in ProbeAt("ensure_git_repo", GitVersionCmd) : calls[k].rc = 0
          /\ workTree
          /\ Detected \/ InitSucceeded
          /\ cfg # Absent

\* a run that initialised the repository and wrote the file has completed
C10_Witness ==
    /\ Printed(DoneMsg)
    /\ InitSucceeded
    /\ start.cfg = Absent
    /\ cfg = Payload
    /\ Invoked(HookInstallCmd)

====
